---- MODULE Spec2Model ----
(***************************************************************************)
(* Conga -> Box DocGen conversion engine (src/src/core/conversion_engine.py)*)
(* as a state machine: one action per branch of the body of the for loop   *)
(* of convert_template, one for the early return on an empty element list  *)
(* and one for the code after the loop (unclosed-block check, join,        *)
(* return).                                                                *)
(*                                                                         *)
(* Strings whose text matters (tags, parameters, targets, emitted tokens,  *)
(* the converted template) are sequences of one-character strings, so that *)
(* startswith/endswith, wrapping, joining and lengths are computed.        *)
(* Strings the code only compares with literals (control_type,             *)
(* issue_type, severity, conversion_method, element_type) are TLA+ strings.*)
(* Optional[T] is a sequence of length at most one: None is <<>>, a        *)
(* present value v is <<v>>.                                               *)
(* The free-text fields message and notes (and the QueryContextRow columns *)
(* DataType and SourceTable, which are read only to build notes) are not   *)
(* modelled: no branch reads them.                                         *)
(*                                                                         *)
(* template_elements holds the elements the for loop has taken so far; the *)
(* rest of the list is drawn element by element as the loop advances.      *)
(* text is the string _extract_elements_from_text is given when the list   *)
(* comes from the tokenizer (ExtractSpec); it is empty when                *)
(* convert_template is called on a list of its own (Spec).                 *)
(* suspended holds the locals of a second invocation of convert_template   *)
(* while the other one runs (TwoCallsSpec); it is None when there is only  *)
(* one invocation.                                                         *)
(***************************************************************************)
EXTENDS Naturals, Sequences, FiniteSets, TLC

\* Bounds of the model: the longest element list converted with the two
\* mapping-source pairs of LongRunSources, and with every other pair.
MaxLen == 4
MaxLenMapping == 2

VARIABLES
    template_elements,                     \* elements consumed so far
    schema_mapping,                        \* Optional[SchemaMapping]
    query_context_csv,                     \* Optional[List[QueryContextRow]]
    processed_tags_for_template_content,   \* List[str]
    mapping_report,                        \* List[MappingReportEntry]
    validation_errors,                     \* List[ValidationError]
    open_block_parameters_stack,           \* List[str], top is the last
    converted_template,                    \* the returned string
    pc,                                    \* "entry" | "loop" | "returned"
    text,                                  \* the text the elements come from
    suspended                              \* Optional: the other invocation

vars == <<template_elements, schema_mapping, query_context_csv,
          processed_tags_for_template_content, mapping_report,
          validation_errors, open_block_parameters_stack,
          converted_template, pc, text, suspended>>

-----------------------------------------------------------------------------
\* Python values

None == <<>>
Some(v) == <<v>>

\* bool(x) of an Optional[str]: None and "" are falsy
Truthy(opt) == opt # None /\ opt[1] # <<>>

Last(s) == s[Len(s)]

-----------------------------------------------------------------------------
\* DTOs (src/src/DTOs/models.py)

TextSegment(content) ==
    [element_type |-> "text", original_tag |-> content, content |-> content]

CongaMergeField(tag, name) ==
    [element_type |-> "merge_field", original_tag |-> tag, field_name |-> name]

CongaControlTag(tag, ctype, param) ==
    [element_type |-> "control_tag", original_tag |-> tag,
     control_type |-> ctype, parameter |-> param]

\* an instance of the base class: none of the three kinds the loop tests for
CongaTemplateElement(tag, etype) ==
    [element_type |-> etype, original_tag |-> tag]

MappingReportEntry(tag, box, method) ==
    [conga_tag |-> tag, box_tag |-> box, conversion_method |-> method]

ValidationError(tag, issue, sev) ==
    [field_tag |-> tag, issue_type |-> issue, severity |-> sev]

QueryContextRow(field, box) ==
    [CongaField |-> field, RelatedBoxField |-> box]

SchemaMapping(direct) ==
    [direct_mappings |-> direct]

-----------------------------------------------------------------------------
\* String helpers of the engine

\* f"{{{{{s}}}}}"
Wrap(s) == <<"{", "{">> \o s \o <<"}", "}">>

\* s.startswith("{{") and s.endswith("}}")
IsWrapped(s) ==
    /\ Len(s) >= 2
    /\ SubSeq(s, 1, 2) = <<"{", "{">>
    /\ SubSeq(s, Len(s) - 1, Len(s)) = <<"}", "}">>

\* the token appended for a resolved merge field
NormalizeBoxTagAlwaysWrap(box_tag_found) == Wrap(box_tag_found)

NormalizeBoxTag(box_tag_found) ==
    IF IsWrapped(box_tag_found) THEN box_tag_found ELSE Wrap(box_tag_found)

\* f"{{{{#{parameter_name}}}}}"
BlockOpenTagNoHash(parameter_name) == Wrap(parameter_name)

BlockOpenTag(parameter_name) == <<"{", "{", "#">> \o parameter_name \o <<"}", "}">>

\* f"{{{{/{popped_parameter}}}}}"
BlockCloseTag(popped_parameter) ==
    <<"{", "{", "/">> \o popped_parameter \o <<"}", "}">>

\* f"(Unclosed Block: {unclosed_param})"
UnclosedFieldTag(unclosed_param) ==
    <<"(", "U", "n", "c", "l", "o", "s", "e", "d", " ",
      "B", "l", "o", "c", "k", ":", " ">> \o unclosed_param \o <<")">>

\* " ".join(tokens)
RECURSIVE Join(_)
Join(tokens) ==
    IF tokens = <<>> THEN <<>>
    ELSE IF Len(tokens) = 1 THEN tokens[1]
    ELSE tokens[1] \o <<" ">> \o Join(Tail(tokens))


-----------------------------------------------------------------------------
\* Merge-field resolution (convert_template, lines 76-88)

\* schema_mapping and schema_mapping.direct_mappings
\*     and conga_tag in schema_mapping.direct_mappings
DirectHit(schema, conga_tag) ==
    /\ schema # None
    /\ DOMAIN schema[1].direct_mappings # {}
    /\ conga_tag \in DOMAIN schema[1].direct_mappings

\* qc_row.CongaField == conga_tag and qc_row.RelatedBoxField
RowMatches(qc_row, conga_tag) ==
    qc_row.CongaField = conga_tag /\ Truthy(qc_row.RelatedBoxField)

\* a scan that keeps the last matching row instead of breaking at the first
RECURSIVE CsvScanLastWins(_, _)
CsvScanLastWins(rows, conga_tag) ==
    IF rows = <<>> THEN None
    ELSE IF RowMatches(Last(rows), conga_tag) THEN Last(rows).RelatedBoxField
    ELSE CsvScanLastWins(SubSeq(rows, 1, Len(rows) - 1), conga_tag)

\* for qc_row in query_context_csv: if ...: box_tag_found = ...; break
RECURSIVE CsvScan(_, _)
CsvScan(rows, conga_tag) ==
    IF rows = <<>> THEN None
    ELSE IF RowMatches(Head(rows), conga_tag) THEN Head(rows).RelatedBoxField
    ELSE CsvScan(Tail(rows), conga_tag)

Resolution(box, method) == [box_tag_found |-> box, conversion_method |-> method]

\* the query context consulted before the schema's direct mappings
ResolveMergeFieldCsvFirst(conga_tag, schema, csv) ==
    IF csv # None /\ csv[1] # <<>> /\ CsvScan(csv[1], conga_tag) # None
    THEN Resolution(CsvScan(csv[1], conga_tag), "Query Context (CSV)")
    ELSE IF DirectHit(schema, conga_tag)
    THEN Resolution(Some(schema[1].direct_mappings[conga_tag]),
                    "Direct Mapping (Schema)")
    ELSE Resolution(None, "Unmapped")

\* both sources looked up by the bare field name instead of the full tag
ResolveMergeFieldByFieldName(conga_tag, schema, csv) ==
    LET field_name == SubSeq(conga_tag, 3, Len(conga_tag) - 2)
    IN  IF DirectHit(schema, field_name)
        THEN Resolution(Some(schema[1].direct_mappings[field_name]),
                        "Direct Mapping (Schema)")
        ELSE IF csv # None /\ csv[1] # <<>>
        THEN LET hit == CsvScan(csv[1], field_name)
             IN  IF hit # None THEN Resolution(hit, "Query Context (CSV)")
                 ELSE Resolution(None, "Unmapped")
        ELSE Resolution(None, "Unmapped")

ResolveMergeField(conga_tag, schema, csv) ==
    IF DirectHit(schema, conga_tag)
    THEN Resolution(Some(schema[1].direct_mappings[conga_tag]),
                    "Direct Mapping (Schema)")
    ELSE IF csv # None /\ csv[1] # <<>>
    THEN LET hit == CsvScan(csv[1], conga_tag)
         IN  IF hit # None THEN Resolution(hit, "Query Context (CSV)")
             ELSE Resolution(None, "Unmapped")
    ELSE Resolution(None, "Unmapped")

\* the token appended for a merge field (lines 95-107)
MergeFieldToken(conga_tag, box_tag_found) ==
    IF Truthy(box_tag_found) THEN NormalizeBoxTag(box_tag_found[1])
    ELSE conga_tag

\* the unmapped branch without its validation entry
MergeFieldErrorsNone(conga_tag, box_tag_found) == <<>>

\* the warning kept for a target that is None, not for an empty one
MergeFieldErrorsNullOnly(conga_tag, box_tag_found) ==
    IF box_tag_found # None THEN <<>>
    ELSE <<ValidationError(Some(conga_tag), "Unmapped Merge Field", "warning")>>

\* the validation entries appended for a merge field (lines 106-115)
MergeFieldErrors(conga_tag, box_tag_found) ==
    IF Truthy(box_tag_found) THEN <<>>
    ELSE <<ValidationError(Some(conga_tag), "Unmapped Merge Field", "warning")>>

-----------------------------------------------------------------------------
\* Control tags (convert_template, lines 126-195)

IsOpening(control_type) == control_type = "TableStart" \/ control_type = "IF"

IsClosing(control_type) == control_type = "TableEnd" \/ control_type = "ENDIF"

\* the method left at its initial value on the opening branch
OpenMethodUnhandled(control_type) == "Control Tag (Unhandled)"

\* f"{element.control_type} to Box {block_type_text}"
OpenMethod(control_type) ==
    IF control_type = "TableStart" THEN "TableStart to Box Table Section Start"
    ELSE "IF to Box Conditional Block Start"

\* f"{element.control_type} to Box Block End"
CloseMethod(control_type) ==
    IF control_type = "TableEnd" THEN "TableEnd to Box Block End"
    ELSE "ENDIF to Box Block End"

\* the parameters compared with == instead of !=
IsMismatchInverted(control_type, parameter_name, popped_parameter) ==
    /\ control_type = "TableEnd"
    /\ Truthy(parameter_name)
    /\ parameter_name[1] = popped_parameter

\* element.control_type == "TableEnd" and parameter_name
\*     and parameter_name != popped_parameter
IsMismatch(control_type, parameter_name, popped_parameter) ==
    /\ control_type = "TableEnd"
    /\ Truthy(parameter_name)
    /\ parameter_name[1] # popped_parameter

\* only the block opened last is reported
UnclosedBlockErrorsTopOnly(stack) ==
    IF stack = <<>> THEN <<>>
    ELSE <<ValidationError(Some(UnclosedFieldTag(Last(stack))),
                           "Unclosed Block", "error")>>

\* for unclosed_param in open_block_parameters_stack: ... (lines 217-224)
UnclosedBlockErrors(stack) ==
    [k \in 1..Len(stack) |->
        ValidationError(Some(UnclosedFieldTag(stack[k])), "Unclosed Block", "error")]

-----------------------------------------------------------------------------
\* Inputs: the elements a list may hold and the mapping sources

TagN == <<"{", "{", "N", "}", "}">>
TagM == <<"{", "{", "M", "}", "}">>
BareN == <<"N">>
ParamA == <<"A">>
ParamB == <<"B">>

TableStartTag(p) ==
    Wrap(<<"T", "a", "b", "l", "e", "S", "t", "a", "r", "t", ":">> \o p)
TableEndTag(p) ==
    Wrap(<<"T", "a", "b", "l", "e", "E", "n", "d", ":">> \o p)
IfTag(p) == Wrap(<<"I", "F", ":">> \o p)
EndIfTag(p) == Wrap(<<"E", "N", "D", "I", "F", ":">> \o p)

TextElements == { TextSegment(<<"x">>) }

MergeElements == { CongaMergeField(TagN, BareN) }

OpeningElements ==
    { CongaControlTag(TableStartTag(ParamA), "TableStart", Some(ParamA)),
      CongaControlTag(IfTag(ParamB), "IF", Some(ParamB)),
      CongaControlTag(TableStartTag(<<>>), "TableStart", Some(<<>>)),
      CongaControlTag(Wrap(<<"I", "F">>), "IF", None) }

ClosingElements ==
    { CongaControlTag(TableEndTag(ParamA), "TableEnd", Some(ParamA)),
      CongaControlTag(TableEndTag(ParamB), "TableEnd", Some(ParamB)),
      CongaControlTag(EndIfTag(ParamB), "ENDIF", Some(ParamB)),
      CongaControlTag(Wrap(<<"E", "N", "D", "I", "F">>), "ENDIF", None) }

OtherControlElements ==
    { CongaControlTag(Wrap(<<"F", "o", "o", ":", "A">>), "Foo", Some(ParamA)) }

UnknownElements ==
    { CongaTemplateElement(Wrap(<<"?">>), "other") }

ControlElements == OpeningElements \cup ClosingElements \cup OtherControlElements

\* schema_mapping: absent, an empty table, and tables keyed by the full tag
\* (bare path, pre-wrapped tag, empty value) or by the bare field name
SchemaChoices ==
    { None,
      Some(SchemaMapping(<<>>)),
      Some(SchemaMapping(TagN :> <<"a">>)),
      Some(SchemaMapping(TagN :> Wrap(<<"a">>))),
      Some(SchemaMapping(TagN :> <<>>)),
      Some(SchemaMapping(BareN :> <<"a">>)) }

CsvRows ==
    <<QueryContextRow(TagN, None),
      QueryContextRow(TagM, Some(<<"c">>)),
      QueryContextRow(TagN, Some(<<>>)),
      QueryContextRow(TagN, Some(<<"b">>)),
      QueryContextRow(TagN, Some(<<"c">>))>>

\* query_context_csv: absent, empty, and row lists with non-matching keys,
\* absent and empty targets, several matching rows, a pre-wrapped and a
\* half-wrapped target, a row keyed by the bare field name
CsvChoices ==
    { None,
      Some(<<>>),
      Some(CsvRows),
      Some(<<QueryContextRow(TagN, Some(Wrap(<<"b">>))),
             QueryContextRow(TagN, Some(<<"b">>))>>),
      Some(<<QueryContextRow(TagN, Some(<<"{", "{", "b">>))>>),
      Some(<<QueryContextRow(BareN, Some(<<"b">>))>>) }

\* the source pairs under which lists of up to MaxLen elements are converted
LongRunSources ==
    { <<None, None>>,
      <<Some(SchemaMapping(TagN :> <<"a">>)), Some(CsvRows)>> }

\* how many elements the list being converted may hold
InputBound ==
    IF <<schema_mapping, query_context_csv>> \in LongRunSources
    THEN MaxLen ELSE MaxLenMapping

-----------------------------------------------------------------------------
\* convert_template

\* lines 39-43: the state on entry, for any mapping sources
Init ==
    /\ schema_mapping \in SchemaChoices
    /\ query_context_csv \in CsvChoices
    /\ template_elements = <<>>
    /\ processed_tags_for_template_content = <<>>
    /\ mapping_report = <<>>
    /\ validation_errors = <<>>
    /\ open_block_parameters_stack = <<>>
    /\ converted_template = <<>>
    /\ pc = "entry"
    /\ text = <<>>
    /\ suspended = None

\* the early return without its validation entry
EmptyInputNoWarning ==
    /\ pc = "entry"
    /\ converted_template' = <<>>
    /\ pc' = "returned"
    /\ UNCHANGED <<template_elements, schema_mapping, query_context_csv,
                   processed_tags_for_template_content, mapping_report,
                   validation_errors, open_block_parameters_stack, text,
                   suspended>>

\* lines 45-59: if not template_elements: ... return
EmptyInput ==
    /\ pc = "entry"
    /\ validation_errors' =
           Append(validation_errors,
                  ValidationError(None, "No Template Content", "warning"))
    /\ converted_template' = <<>>
    /\ pc' = "returned"
    /\ UNCHANGED <<template_elements, schema_mapping, query_context_csv,
                   processed_tags_for_template_content, mapping_report,
                   open_block_parameters_stack, text,
                   suspended>>

\* an iteration that puts its token in front of the buffer
IterationPrepending(element, token, report_entries, errors, stack) ==
    /\ pc \in {"entry", "loop"}
    /\ Len(template_elements) < InputBound
    /\ template_elements' = Append(template_elements, element)
    /\ processed_tags_for_template_content' =
           <<token>> \o processed_tags_for_template_content
    /\ mapping_report' = mapping_report \o report_entries
    /\ validation_errors' = validation_errors \o errors
    /\ open_block_parameters_stack' = stack
    /\ pc' = "loop"
    /\ UNCHANGED <<schema_mapping, query_context_csv, converted_template,
                   text, suspended>>

\* one iteration of the for loop (line 62) on element: what every branch
\* does with its token, its report entries, its validation entries and the stack
Iteration(element, token, report_entries, errors, stack) ==
    /\ pc \in {"entry", "loop"}
    /\ Len(template_elements) < InputBound
    /\ template_elements' = Append(template_elements, element)
    /\ processed_tags_for_template_content' =
           Append(processed_tags_for_template_content, token)
    /\ mapping_report' = mapping_report \o report_entries
    /\ validation_errors' = validation_errors \o errors
    /\ open_block_parameters_stack' = stack
    /\ pc' = "loop"
    /\ UNCHANGED <<schema_mapping, query_context_csv, converted_template,
                   text, suspended>>

\* lines 68-71: the branch of a TextSegment
ConvertTextSegment(element) ==
    Iteration(element, element.content, <<>>, <<>>,
              open_block_parameters_stack)

TextSegmentStep ==
    \E element \in TextElements : ConvertTextSegment(element)

\* lines 74-124: the branch of a CongaMergeField
ConvertMergeField(element) ==
    LET conga_tag == element.original_tag
        res == ResolveMergeField(conga_tag, schema_mapping, query_context_csv)
    IN  Iteration(element,
                  MergeFieldToken(conga_tag, res.box_tag_found),
                  <<MappingReportEntry(conga_tag, res.box_tag_found,
                                       res.conversion_method)>>,
                  MergeFieldErrors(conga_tag, res.box_tag_found),
                  open_block_parameters_stack)

MergeFieldStep ==
    \E element \in MergeElements : ConvertMergeField(element)

\* the report entry of an opening tag holding the bare parameter instead of
\* the delimiter emitted
OpenWithParameterReportingParameter ==
    \E element \in ControlElements :
        /\ IsOpening(element.control_type)
        /\ Truthy(element.parameter)
        /\ LET parameter_name == element.parameter[1]
               box_equivalent_tag == BlockOpenTag(parameter_name)
           IN  Iteration(element,
                         box_equivalent_tag,
                         <<MappingReportEntry(element.original_tag,
                                              Some(parameter_name),
                                              OpenMethod(element.control_type))>>,
                         <<>>,
                         Append(open_block_parameters_stack, parameter_name))

\* lines 134-141 and 188-195: TableStart or IF with a parameter
OpenWithParameter ==
    \E element \in ControlElements :
        /\ IsOpening(element.control_type)
        /\ Truthy(element.parameter)
        /\ LET parameter_name == element.parameter[1]
               box_equivalent_tag == BlockOpenTag(parameter_name)
           IN  Iteration(element,
                         box_equivalent_tag,
                         <<MappingReportEntry(element.original_tag,
                                              Some(box_equivalent_tag),
                                              OpenMethod(element.control_type))>>,
                         <<>>,
                         Append(open_block_parameters_stack, parameter_name))

\* the fallback branch leaving the loop body before the report entry is added
OpenMissingParameterUnreported ==
    \E element \in ControlElements :
        /\ IsOpening(element.control_type)
        /\ ~Truthy(element.parameter)
        /\ Iteration(element,
                     element.original_tag,
                     <<>>,
                     <<ValidationError(Some(element.original_tag),
                                       "Missing Parameter", "error")>>,
                     open_block_parameters_stack)

\* a parameterless opener that opens a block all the same, with an empty name
OpenMissingParameterPushing ==
    \E element \in ControlElements :
        /\ IsOpening(element.control_type)
        /\ ~Truthy(element.parameter)
        /\ Iteration(element,
                     element.original_tag,
                     <<MappingReportEntry(element.original_tag, None,
                                          "Control Tag (Unhandled)")>>,
                     <<ValidationError(Some(element.original_tag),
                                       "Missing Parameter", "error")>>,
                     Append(open_block_parameters_stack, <<>>))

\* lines 142-150 and 188-195: TableStart or IF without a parameter
OpenMissingParameter ==
    \E element \in ControlElements :
        /\ IsOpening(element.control_type)
        /\ ~Truthy(element.parameter)
        /\ Iteration(element,
                     element.original_tag,
                     <<MappingReportEntry(element.original_tag, None,
                                          "Control Tag (Unhandled)")>>,
                     <<ValidationError(Some(element.original_tag),
                                       "Missing Parameter", "error")>>,
                     open_block_parameters_stack)

\* the closing delimiter built from the closing tag's own parameter when it has one
CloseBlockTokenOwnParameter(element, popped_parameter) ==
    IF Truthy(element.parameter) THEN BlockCloseTag(element.parameter[1])
    ELSE BlockCloseTag(popped_parameter)

\* line 169: box_equivalent_tag of a closing tag
CloseBlockToken(element, popped_parameter) == BlockCloseTag(popped_parameter)

\* lines 154-171 and 188-195: TableEnd or ENDIF, a block is open
CloseOpenBlock ==
    \E element \in ControlElements :
        /\ IsClosing(element.control_type)
        /\ open_block_parameters_stack # <<>>
        /\ LET popped_parameter == Last(open_block_parameters_stack)
               box_equivalent_tag == CloseBlockToken(element, popped_parameter)
           IN  Iteration(element,
                         box_equivalent_tag,
                         <<MappingReportEntry(element.original_tag,
                                              Some(box_equivalent_tag),
                                              CloseMethod(element.control_type))>>,
                         IF IsMismatch(element.control_type, element.parameter,
                                       popped_parameter)
                         THEN <<ValidationError(Some(element.original_tag),
                                                "Mismatched Block End", "warning")>>
                         ELSE <<>>,
                         SubSeq(open_block_parameters_stack, 1,
                                Len(open_block_parameters_stack) - 1))

\* the unexpected end recorded with the default severity instead of error
UnexpectedBlockEndAsWarning ==
    \E element \in ControlElements :
        /\ IsClosing(element.control_type)
        /\ open_block_parameters_stack = <<>>
        /\ Iteration(element,
                     element.original_tag,
                     <<MappingReportEntry(element.original_tag, None,
                                          "Control Tag (Unhandled)")>>,
                     <<ValidationError(Some(element.original_tag),
                                       "Unexpected Block End", "warning")>>,
                     open_block_parameters_stack)

\* lines 172-180 and 188-195: TableEnd or ENDIF, no block is open
UnexpectedBlockEnd ==
    \E element \in ControlElements :
        /\ IsClosing(element.control_type)
        /\ open_block_parameters_stack = <<>>
        /\ Iteration(element,
                     element.original_tag,
                     <<MappingReportEntry(element.original_tag, None,
                                          "Control Tag (Unhandled)")>>,
                     <<ValidationError(Some(element.original_tag),
                                       "Unexpected Block End", "error")>>,
                     open_block_parameters_stack)

\* lines 182-195: the else branch of a CongaControlTag
ConvertUnhandledControlTag(element) ==
    Iteration(element,
              element.original_tag,
              <<MappingReportEntry(element.original_tag, None,
                                   "Control Tag (Unhandled)")>>,
              <<>>,
              open_block_parameters_stack)

\* any other control type
UnhandledControlTag ==
    \E element \in ControlElements :
        /\ ~IsOpening(element.control_type)
        /\ ~IsClosing(element.control_type)
        /\ ConvertUnhandledControlTag(element)

\* lines 196-214: none of TextSegment, CongaMergeField, CongaControlTag
UnknownElementStep ==
    \E element \in UnknownElements :
        Iteration(element,
                  element.original_tag,
                  <<MappingReportEntry(element.original_tag, None,
                                       "Unknown Element Type")>>,
                  <<ValidationError(Some(element.original_tag),
                                    "Unknown Element", "error")>>,
                  open_block_parameters_stack)

\* an unclosed block raised as ConversionEngineError instead of recorded:
\* nothing is returned while the stack is non-empty
ReturnRaisingOnUnclosed ==
    /\ pc = "loop"
    /\ open_block_parameters_stack = <<>>
    /\ converted_template' = Join(processed_tags_for_template_content)
    /\ pc' = "returned"
    /\ UNCHANGED <<template_elements, schema_mapping, query_context_csv,
                   processed_tags_for_template_content, mapping_report,
                   validation_errors, open_block_parameters_stack, text,
                   suspended>>

\* lines 216-242: the list is exhausted
Return ==
    /\ pc = "loop"
    /\ validation_errors' =
           validation_errors \o UnclosedBlockErrors(open_block_parameters_stack)
    /\ converted_template' = Join(processed_tags_for_template_content)
    /\ pc' = "returned"
    /\ UNCHANGED <<template_elements, schema_mapping, query_context_csv,
                   processed_tags_for_template_content, mapping_report,
                   open_block_parameters_stack, text,
                   suspended>>

Next ==
    \/ EmptyInput
    \/ TextSegmentStep
    \/ MergeFieldStep
    \/ OpenWithParameter
    \/ OpenMissingParameter
    \/ CloseOpenBlock
    \/ UnexpectedBlockEnd
    \/ UnhandledControlTag
    \/ UnknownElementStep
    \/ Return

Spec == Init /\ [][Next]_vars

-----------------------------------------------------------------------------
\* The tokenizer (src/src/parsers/docx_parser.py)

\* str.strip() on strings whose only whitespace character is the blank
RECURSIVE lstrip(_)
lstrip(s) == IF s # <<>> /\ Head(s) = " " THEN lstrip(Tail(s)) ELSE s

RECURSIVE rstrip(_)
rstrip(s) ==
    IF s # <<>> /\ Last(s) = " " THEN rstrip(SubSeq(s, 1, Len(s) - 1)) ELSE s

strip(s) == rstrip(lstrip(s))

\* the index of the first c in s at or after from, 0 when there is none
Find(s, c, from) ==
    LET hits == { j \in from..Len(s) : s[j] = c }
    IN  IF hits = {} THEN 0
        ELSE CHOOSE j \in hits : \A m \in hits : j <= m

\* r"\{\{([^}]+)\}\}" tried at index start: the index of the last character
\* of the match, 0 when there is no match there.  [^}]+ runs up to the first
\* "}" and cannot give a character back, so the match needs a run of at
\* least one character followed at once by "}}".
CONGA_TAG_REGEX(s, start) ==
    IF /\ start + 1 <= Len(s)
       /\ s[start] = "{"
       /\ s[start + 1] = "{"
    THEN LET close == Find(s, "}", start + 2)
         IN  IF /\ close > start + 2
                /\ close + 1 <= Len(s)
                /\ s[close + 1] = "}"
             THEN close + 1
             ELSE 0
    ELSE 0

\* the index of the last c in s, 0 when there is none
FindLast(s, c) ==
    LET hits == { j \in 1..Len(s) : s[j] = c }
    IN  IF hits = {} THEN 0
        ELSE CHOOSE j \in hits : \A m \in hits : j >= m

\* the content split with rsplit(":", 1): on the last colon
_parse_tag_content_rsplit(full_tag, inner_content) ==
    LET inner_content_stripped == strip(inner_content)
        colon == FindLast(inner_content_stripped, ":")
    IN  IF colon # 0
        THEN CongaControlTag(
                 full_tag,
                 strip(SubSeq(inner_content_stripped, 1, colon - 1)),
                 Some(strip(SubSeq(inner_content_stripped, colon + 1,
                                   Len(inner_content_stripped)))))
        ELSE CongaMergeField(full_tag, inner_content_stripped)

\* lines 16-34; the DTO constructors raise nothing on these strings
_parse_tag_content(full_tag, inner_content) ==
    LET inner_content_stripped == strip(inner_content)
        colon == Find(inner_content_stripped, ":", 1)
    IN  IF colon # 0
        THEN CongaControlTag(
                 full_tag,
                 strip(SubSeq(inner_content_stripped, 1, colon - 1)),
                 Some(strip(SubSeq(inner_content_stripped, colon + 1,
                                   Len(inner_content_stripped)))))
        ELSE CongaMergeField(full_tag, inner_content_stripped)

\* lines 44-51 and 72-79: text outside the tags, kept only if .strip() is truthy
TextBetween(s, first, last) ==
    IF first <= last /\ strip(SubSeq(s, first, last)) # <<>>
    THEN <<TextSegment(SubSeq(s, first, last))>>
    ELSE <<>>

\* re.finditer from index start on, last_end characters already covered
RECURSIVE ExtractFrom(_, _, _)
ExtractFrom(s, last_end, start) ==
    IF start > Len(s) THEN TextBetween(s, last_end + 1, Len(s))
    ELSE LET match_end == CONGA_TAG_REGEX(s, start)
         IN  IF match_end = 0 THEN ExtractFrom(s, last_end, start + 1)
             ELSE TextBetween(s, last_end + 1, start - 1)
                  \o <<_parse_tag_content(SubSeq(s, start, match_end),
                                          SubSeq(s, start + 2, match_end - 2))>>
                  \o ExtractFrom(s, match_end, match_end + 1)

\* lines 36-80
_extract_elements_from_text(s) == ExtractFrom(s, 0, 1)

-----------------------------------------------------------------------------
\* convert_template on the elements the tokenizer extracts from a text

\* the longest text tokenized
MaxTextLen == 6

\* the characters of the texts: the delimiters, the colon, the blank, a letter
Alphabet == {"{", "}", ":", " ", "N"}

\* the longest text made of delimiters and letters only: long enough for a
\* "{{" opened inside a tag that is still open
MaxBraceTextLen == 8

BraceAlphabet == {"{", "}", "N"}

Texts ==
    UNION { [1..n -> Alphabet] : n \in 0..MaxTextLen }
    \cup UNION { [1..n -> BraceAlphabet] : n \in 0..MaxBraceTextLen }

\* the control types the engine has a branch for, as the tokenizer spells them
KnownControlTypes ==
    { <<"T", "a", "b", "l", "e", "S", "t", "a", "r", "t">>,
      <<"I", "F">>,
      <<"T", "a", "b", "l", "e", "E", "n", "d">>,
      <<"E", "N", "D", "I", "F">> }

Extracted == _extract_elements_from_text(text)

HasNextExtracted == Len(template_elements) < Len(Extracted)

NextExtracted == Extracted[Len(template_elements) + 1]

ExtractInit ==
    /\ text \in Texts
    /\ \E sources \in LongRunSources :
           /\ schema_mapping = sources[1]
           /\ query_context_csv = sources[2]
    /\ template_elements = <<>>
    /\ processed_tags_for_template_content = <<>>
    /\ mapping_report = <<>>
    /\ validation_errors = <<>>
    /\ open_block_parameters_stack = <<>>
    /\ converted_template = <<>>
    /\ pc = "entry"
    /\ suspended = None

\* the tokenizer found nothing: convert_template([])
ExtractedNothing ==
    /\ Extracted = <<>>
    /\ EmptyInput

ExtractedTextSegment ==
    /\ HasNextExtracted
    /\ NextExtracted.element_type = "text"
    /\ ConvertTextSegment(NextExtracted)

ExtractedMergeField ==
    /\ HasNextExtracted
    /\ NextExtracted.element_type = "merge_field"
    /\ ConvertMergeField(NextExtracted)

\* a text this short spells none of the four known control types
ExtractedControlTag ==
    /\ HasNextExtracted
    /\ NextExtracted.element_type = "control_tag"
    /\ NextExtracted.control_type \notin KnownControlTypes
    /\ ConvertUnhandledControlTag(NextExtracted)

ExtractedExhausted ==
    /\ ~HasNextExtracted
    /\ Return

ExtractNext ==
    \/ ExtractedNothing
    \/ ExtractedTextSegment
    \/ ExtractedMergeField
    \/ ExtractedControlTag
    \/ ExtractedExhausted

ExtractSpec == ExtractInit /\ [][ExtractNext]_vars

-----------------------------------------------------------------------------
\* Two invocations of convert_template on the same list and mapping sources

\* the locals of an invocation that is not running at the moment
Frame(role) ==
    [role |-> role,
     template_elements |-> template_elements,
     processed_tags_for_template_content |->
         processed_tags_for_template_content,
     mapping_report |-> mapping_report,
     validation_errors |-> validation_errors,
     open_block_parameters_stack |-> open_block_parameters_stack,
     converted_template |-> converted_template,
     pc |-> pc]

\* which invocation the unprimed locals belong to
Running ==
    IF suspended = None THEN "first"
    ELSE IF suspended[1].role = "first" THEN "second" ELSE "first"

TwoCallsInit ==
    /\ Init
    /\ schema_mapping \in {None, Some(SchemaMapping(TagN :> <<"a">>))}
    /\ <<schema_mapping, query_context_csv>> \notin LongRunSources

\* a second call whose open-block stack is the one the first call left
InvokeAgainSharingStack ==
    /\ suspended = None
    /\ suspended' = Some(Frame("first"))
    /\ template_elements' = <<>>
    /\ processed_tags_for_template_content' = <<>>
    /\ mapping_report' = <<>>
    /\ validation_errors' = <<>>
    /\ converted_template' = <<>>
    /\ pc' = "entry"
    /\ UNCHANGED <<schema_mapping, query_context_csv, text,
                   open_block_parameters_stack>>

\* lines 38-43: the second call is entered, before, while or after the
\* first one runs, and its locals are created
InvokeAgain ==
    /\ suspended = None
    /\ suspended' = Some(Frame("first"))
    /\ template_elements' = <<>>
    /\ processed_tags_for_template_content' = <<>>
    /\ mapping_report' = <<>>
    /\ validation_errors' = <<>>
    /\ open_block_parameters_stack' = <<>>
    /\ converted_template' = <<>>
    /\ pc' = "entry"
    /\ UNCHANGED <<schema_mapping, query_context_csv, text>>

\* the other invocation is scheduled: each one finds its own locals
Resume ==
    /\ suspended # None
    /\ suspended' = Some(Frame(Running))
    /\ template_elements' = suspended[1].template_elements
    /\ processed_tags_for_template_content' =
           suspended[1].processed_tags_for_template_content
    /\ mapping_report' = suspended[1].mapping_report
    /\ validation_errors' = suspended[1].validation_errors
    /\ open_block_parameters_stack' = suspended[1].open_block_parameters_stack
    /\ converted_template' = suspended[1].converted_template
    /\ pc' = suspended[1].pc
    /\ UNCHANGED <<schema_mapping, query_context_csv, text>>

\* a step of the first invocation: its list is drawn as it goes
FirstCallStep ==
    /\ Running = "first"
    /\ Next

\* a step of the second invocation: it is given the list of the first
SecondCallStep ==
    /\ Running = "second"
    /\ Next
    /\ Len(template_elements') <= Len(suspended[1].template_elements)
    /\ template_elements' =
           SubSeq(suspended[1].template_elements, 1, Len(template_elements'))
    /\ pc' = "returned" =>
           /\ suspended[1].pc = "returned"
           /\ template_elements' = suspended[1].template_elements

TwoCallsNext ==
    \/ InvokeAgain
    \/ Resume
    \/ FirstCallStep
    \/ SecondCallStep

TwoCallsSpec == TwoCallsInit /\ [][TwoCallsNext]_vars

-----------------------------------------------------------------------------
\* Vocabulary of the properties, stated on the inputs and the outputs only

\* direct concatenation, nothing between the tokens
RECURSIVE Concat(_)
Concat(tokens) ==
    IF tokens = <<>> THEN <<>> ELSE Head(tokens) \o Concat(Tail(tokens))

RECURSIVE SumLen(_)
SumLen(tokens) ==
    IF tokens = <<>> THEN 0 ELSE Len(Head(tokens)) + SumLen(Tail(tokens))

CountIf(seq, Test(_)) == Cardinality({k \in 1..Len(seq) : Test(seq[k])})

IsText(e) == e.element_type = "text"
IsNonText(e) == e.element_type # "text"
IsMergeField(e) == e.element_type = "merge_field"
IsControl(e) == e.element_type = "control_tag"
HasParameter(e) == e.parameter # None /\ e.parameter[1] # <<>>
IsOpener(e) == IsControl(e) /\ e.control_type \in {"TableStart", "IF"}
IsCloser(e) == IsControl(e) /\ e.control_type \in {"TableEnd", "ENDIF"}
IsPushingOpener(e) == IsOpener(e) /\ HasParameter(e)

ControlOpenMethods ==
    {"TableStart to Box Table Section Start", "IF to Box Conditional Block Start"}
ControlCloseMethods ==
    {"TableEnd to Box Block End", "ENDIF to Box Block End"}

IsControlCloseEntry(r) == r.conversion_method \in ControlCloseMethods
IsUnclosedError(v) == v.issue_type = "Unclosed Block"
IsUnexpectedEndError(v) == v.issue_type = "Unexpected Block End"

\* the step just taken consumed one more element of the list
Consumes == Len(template_elements') = Len(template_elements) + 1
NewElement == template_elements'[Len(template_elements')]

\* at least one element has been consumed; LastElement is the latest
Consumed == template_elements # <<>>
LastElement == template_elements[Len(template_elements)]

\* the key is an entry of the direct-mapping table
KeyInDirect(key) ==
    schema_mapping # None /\ key \in DOMAIN schema_mapping[1].direct_mappings

\* row j of the context rows has the key and a non-empty target
ContextRowResolves(j, key) ==
    /\ query_context_csv[1][j].CongaField = key
    /\ query_context_csv[1][j].RelatedBoxField # None
    /\ query_context_csv[1][j].RelatedBoxField[1] # <<>>

KeyInContext(key) ==
    /\ query_context_csv # None
    /\ \E j \in 1..Len(query_context_csv[1]) : ContextRowResolves(j, key)

HasDelimiters(t) ==
    /\ Len(t) >= 2
    /\ t[1] = "{" /\ t[2] = "{"
    /\ t[Len(t) - 1] = "}" /\ t[Len(t)] = "}"

-----------------------------------------------------------------------------
\* C1: the returned converted_template is the direct concatenation, in
\* order, of the emitted tokens, with no separator between adjacent tokens:
\* its length is the sum of the token lengths.
C1_DirectConcatenation ==
    pc = "returned" =>
        /\ converted_template = Concat(processed_tags_for_template_content)
        /\ Len(converted_template) = SumLen(processed_tags_for_template_content)

\* C2: at the end of a pass, (openers that pushed) = (closers that popped)
\* + ('Unclosed Block' errors) and (TableEnd/ENDIF tags) = (closers that
\* popped) + ('Unexpected Block End' errors).
C2_BlockAccounting ==
    pc = "returned" =>
        LET pushed == CountIf(template_elements, IsPushingOpener)
            closers == CountIf(template_elements, IsCloser)
            popped == CountIf(mapping_report, IsControlCloseEntry)
            unclosed == CountIf(validation_errors, IsUnclosedError)
            unexpected == CountIf(validation_errors, IsUnexpectedEndError)
        IN  /\ pushed = popped + unclosed
            /\ closers = popped + unexpected

W2_BlockAccounting ==
    /\ pc = "returned"
    /\ CountIf(template_elements, IsPushingOpener) = 2
    /\ CountIf(mapping_report, IsControlCloseEntry) = 1
    /\ CountIf(validation_errors, IsUnclosedError) = 1
    /\ CountIf(validation_errors, IsUnexpectedEndError) = 1

\* C3: after any prefix of the element list, the mapping report holds
\* exactly one entry per non-text element of the prefix, in element order,
\* whose conga_tag is that element's original tag; text adds no entry.
C3_OneReportEntryPerNonText ==
    LET nontext == SelectSeq(template_elements, IsNonText)
    IN  /\ Len(mapping_report) = Len(nontext)
        /\ \A k \in 1..Len(nontext) :
               mapping_report[k].conga_tag = nontext[k].original_tag

W3_OneReportEntryPerNonText ==
    /\ pc = "loop"
    /\ Len(template_elements) = 4
    /\ IsOpener(template_elements[1]) /\ ~HasParameter(template_elements[1])
    /\ IsText(template_elements[2])
    /\ IsMergeField(template_elements[3])
    /\ IsText(template_elements[4])
    /\ Len(mapping_report) = 2

\* C4: a merge field whose key is both in the direct-mapping table and in a
\* context row with a non-empty target resolves to the direct-mapping value
\* with the direct-mapping method; the context rows never override it.
C4_DirectMappingWins ==
    (/\ Consumed
     /\ IsMergeField(LastElement)
     /\ KeyInDirect(LastElement.original_tag)
     /\ KeyInContext(LastElement.original_tag))
    => Last(mapping_report) =
           MappingReportEntry(
               LastElement.original_tag,
               Some(schema_mapping[1].direct_mappings[LastElement.original_tag]),
               "Direct Mapping (Schema)")

W4_DirectMappingWins ==
    /\ Consumed
    /\ IsMergeField(LastElement)
    /\ KeyInDirect(LastElement.original_tag)
    /\ KeyInContext(LastElement.original_tag)
    /\ schema_mapping[1].direct_mappings[LastElement.original_tag] = <<"a">>
    /\ \E j \in 1..Len(query_context_csv[1]) :
           /\ ContextRowResolves(j, LastElement.original_tag)
           /\ query_context_csv[1][j].RelatedBoxField = Some(<<"b">>)
    /\ Last(mapping_report).box_tag = Some(<<"a">>)

\* C5: a merge field with no direct mapping resolves to the target of the
\* first context row, in list order, that has the field's key and a
\* non-empty target: rows with the key but an empty or absent target are
\* skipped, and later matching rows never override the first.
C5_FirstContextRowWins ==
    (/\ Consumed
     /\ IsMergeField(LastElement)
     /\ ~KeyInDirect(LastElement.original_tag)
     /\ query_context_csv # None)
    => \A j \in 1..Len(query_context_csv[1]) :
           (/\ ContextRowResolves(j, LastElement.original_tag)
            /\ \A i \in 1..(j - 1) :
                   ~ContextRowResolves(i, LastElement.original_tag))
           => Last(mapping_report) =
                  MappingReportEntry(LastElement.original_tag,
                                     query_context_csv[1][j].RelatedBoxField,
                                     "Query Context (CSV)")

W5_FirstContextRowWins ==
    /\ Consumed
    /\ IsMergeField(LastElement)
    /\ ~KeyInDirect(LastElement.original_tag)
    /\ query_context_csv # None
    /\ Len(query_context_csv[1]) = 5
    /\ query_context_csv[1][1].CongaField = LastElement.original_tag
    /\ query_context_csv[1][1].RelatedBoxField = None
    /\ query_context_csv[1][3].CongaField = LastElement.original_tag
    /\ query_context_csv[1][3].RelatedBoxField = Some(<<>>)
    /\ ContextRowResolves(4, LastElement.original_tag)
    /\ ContextRowResolves(5, LastElement.original_tag)
    /\ Last(mapping_report).box_tag = Some(<<"b">>)
    /\ query_context_csv[1][5].RelatedBoxField = Some(<<"c">>)

\* C6: a merge field whose key has no entry in the direct-mapping table and
\* no context row with a non-empty target is emitted as its original tag,
\* adds exactly one 'Unmapped Merge Field' entry of severity warning, and
\* gets a report entry with method Unmapped and a null target.
C6_UnmappedFallback ==
    [][ (/\ Consumes
         /\ IsMergeField(NewElement)
         /\ ~KeyInDirect(NewElement.original_tag)
         /\ ~KeyInContext(NewElement.original_tag))
        => /\ processed_tags_for_template_content' =
                  Append(processed_tags_for_template_content,
                         NewElement.original_tag)
           /\ validation_errors' =
                  Append(validation_errors,
                         ValidationError(Some(NewElement.original_tag),
                                         "Unmapped Merge Field", "warning"))
           /\ mapping_report' =
                  Append(mapping_report,
                         MappingReportEntry(NewElement.original_tag, None,
                                            "Unmapped")) ]_vars

W6_UnmappedFallback ==
    /\ Consumed
    /\ IsMergeField(LastElement)
    /\ ~KeyInDirect(LastElement.original_tag)
    /\ ~KeyInContext(LastElement.original_tag)
    /\ schema_mapping # None
    /\ query_context_csv # None /\ query_context_csv[1] # <<>>
    /\ Last(validation_errors).issue_type = "Unmapped Merge Field"
    /\ Last(processed_tags_for_template_content) = LastElement.original_tag

\* C7: for a resolved merge field the emitted token is the target unchanged
\* when the target starts with '{{' and ends with '}}', and otherwise the
\* target wrapped exactly once in '{{' '}}'; normalizing the emitted token
\* again returns it unchanged.
C7_TargetNormalization ==
    (/\ Consumed
     /\ IsMergeField(LastElement)
     /\ Last(mapping_report).box_tag # None
     /\ Last(mapping_report).box_tag[1] # <<>>)
    => LET target == Last(mapping_report).box_tag[1]
           token == Last(processed_tags_for_template_content)
       IN  /\ HasDelimiters(target) => token = target
           /\ ~HasDelimiters(target) =>
                  token = <<"{", "{">> \o target \o <<"}", "}">>
           /\ NormalizeBoxTag(token) = token

W7_TargetNormalization ==
    /\ Consumed
    /\ IsMergeField(LastElement)
    /\ Last(mapping_report).box_tag = Some(<<"{", "{", "b", "}", "}">>)
    /\ Last(processed_tags_for_template_content) = <<"{", "{", "b", "}", "}">>

\* C8: a TableStart or IF tag with a non-empty parameter p pushes exactly p
\* (depth grows by one), emits '{{#p}}', adds no validation entry, and gets
\* a control-open report entry whose target is that delimiter.
C8_OpenWithParameter ==
    [][ (Consumes /\ IsPushingOpener(NewElement))
        => LET p == NewElement.parameter[1]
               delimiter == <<"{", "{", "#">> \o p \o <<"}", "}">>
           IN  /\ open_block_parameters_stack' =
                      Append(open_block_parameters_stack, p)
               /\ processed_tags_for_template_content' =
                      Append(processed_tags_for_template_content, delimiter)
               /\ validation_errors' = validation_errors
               /\ Len(mapping_report') = Len(mapping_report) + 1
               /\ Last(mapping_report').conga_tag = NewElement.original_tag
               /\ Last(mapping_report').box_tag = Some(delimiter)
               /\ Last(mapping_report').conversion_method
                      \in ControlOpenMethods ]_vars

W8_OpenWithParameter ==
    /\ Consumed
    /\ IsPushingOpener(LastElement)
    /\ LastElement.parameter = Some(ParamB)
    /\ open_block_parameters_stack = <<ParamA, ParamB>>
    /\ Last(processed_tags_for_template_content) = <<"{", "{", "#", "B", "}", "}">>

\* C9: a TableStart or IF tag with no parameter (absent or empty) leaves the
\* stack unchanged, emits the original tag, adds exactly one 'Missing
\* Parameter' entry of severity error, and gets a report entry with a
\* control-open method and no resolved target.
C9_OpenMissingParameter ==
    [][ (Consumes /\ IsOpener(NewElement) /\ ~HasParameter(NewElement))
        => /\ open_block_parameters_stack' = open_block_parameters_stack
           /\ processed_tags_for_template_content' =
                  Append(processed_tags_for_template_content,
                         NewElement.original_tag)
           /\ validation_errors' =
                  Append(validation_errors,
                         ValidationError(Some(NewElement.original_tag),
                                         "Missing Parameter", "error"))
           /\ Len(mapping_report') = Len(mapping_report) + 1
           /\ Last(mapping_report').box_tag = None
           /\ Last(mapping_report').conversion_method
                  \in ControlOpenMethods ]_vars

\* C10: a TableEnd or ENDIF tag met while the stack is non-empty pops
\* exactly the top parameter q and emits '{{/q}}' for the popped parameter,
\* never for the tag's own parameter; its report entry has a control-close
\* method.
C10_CloseOpenBlock ==
    [][ (Consumes /\ IsCloser(NewElement) /\ open_block_parameters_stack # <<>>)
        => LET depth == Len(open_block_parameters_stack)
               q == open_block_parameters_stack[depth]
               delimiter == <<"{", "{", "/">> \o q \o <<"}", "}">>
           IN  /\ open_block_parameters_stack' =
                      SubSeq(open_block_parameters_stack, 1, depth - 1)
               /\ processed_tags_for_template_content' =
                      Append(processed_tags_for_template_content, delimiter)
               /\ Len(mapping_report') = Len(mapping_report) + 1
               /\ Last(mapping_report').conga_tag = NewElement.original_tag
               /\ Last(mapping_report').box_tag = Some(delimiter)
               /\ Last(mapping_report').conversion_method
                      \in ControlCloseMethods ]_vars

W10_CloseOpenBlock ==
    /\ Consumed
    /\ IsCloser(LastElement)
    /\ LastElement.parameter = Some(ParamA)
    /\ Len(template_elements) = 3
    /\ IsPushingOpener(template_elements[1])
    /\ template_elements[1].parameter = Some(ParamA)
    /\ IsPushingOpener(template_elements[2])
    /\ template_elements[2].parameter = Some(ParamB)
    /\ open_block_parameters_stack = <<ParamA>>
    /\ Last(processed_tags_for_template_content) = <<"{", "{", "/", "B", "}", "}">>
    /\ Last(mapping_report).conversion_method \in ControlCloseMethods

C12_UnexpectedBlockEnd ==
    [][ (/\ Consumes
         /\ IsCloser(NewElement)
         /\ open_block_parameters_stack = <<>>)
        => /\ processed_tags_for_template_content' =
                  Append(processed_tags_for_template_content,
                         NewElement.original_tag)
           /\ validation_errors' =
                  Append(validation_errors,
                         ValidationError(Some(NewElement.original_tag),
                                         "Unexpected Block End", "error"))
           /\ open_block_parameters_stack' = <<>> ]_vars

W12_UnexpectedBlockEnd ==
    /\ Len(template_elements) = 3
    /\ IsPushingOpener(template_elements[1])
    /\ IsCloser(template_elements[2])
    /\ IsCloser(template_elements[3])
    /\ open_block_parameters_stack = <<>>
    /\ Last(validation_errors) =
           ValidationError(Some(template_elements[3].original_tag),
                           "Unexpected Block End", "error")
    /\ Last(processed_tags_for_template_content) =
           template_elements[3].original_tag

\* C13: a control tag whose type is none of TableStart, IF, TableEnd, ENDIF
\* is passed through verbatim, leaves the stack unchanged, and adds exactly
\* one validation entry, of severity warning, for the unhandled tag.
C13_UnhandledControlTag ==
    [][ (/\ Consumes
         /\ IsControl(NewElement)
         /\ ~IsOpener(NewElement)
         /\ ~IsCloser(NewElement))
        => /\ processed_tags_for_template_content' =
                  Append(processed_tags_for_template_content,
                         NewElement.original_tag)
           /\ open_block_parameters_stack' = open_block_parameters_stack
           /\ Len(validation_errors') = Len(validation_errors) + 1
           /\ SubSeq(validation_errors', 1, Len(validation_errors))
                  = validation_errors
           /\ Last(validation_errors').field_tag =
                  Some(NewElement.original_tag)
           /\ Last(validation_errors').severity = "warning" ]_vars

\* C14: after the whole list is consumed, one 'Unclosed Block' error of
\* severity error is reported for every parameter still on the stack, and
\* these errors come most-recently-opened first (top of the stack first).
C14_UnclosedMostRecentFirst ==
    pc = "returned" =>
        LET depth == Len(open_block_parameters_stack)
            before == Len(validation_errors) - depth
        IN  /\ before >= 0
            /\ \A k \in 1..depth :
                   validation_errors[before + k] =
                       ValidationError(
                           Some(<<"(", "U", "n", "c", "l", "o", "s", "e", "d",
                                  " ", "B", "l", "o", "c", "k", ":", " ">>
                                \o open_block_parameters_stack[depth + 1 - k]
                                \o <<")">>),
                           "Unclosed Block", "error")

\* The positions, in a list of elements, of the openers that pushed and
\* have not been popped, oldest first: the open blocks by their openers.
RECURSIVE OpenerIndices(_)
OpenerIndices(elems) ==
    IF elems = <<>> THEN <<>>
    ELSE LET e == elems[Len(elems)]
             open == OpenerIndices(SubSeq(elems, 1, Len(elems) - 1))
         IN  IF IsPushingOpener(e) THEN Append(open, Len(elems))
             ELSE IF IsCloser(e) /\ open # <<>>
             THEN SubSeq(open, 1, Len(open) - 1)
             ELSE open

\* TableStart is closed by TableEnd, IF by ENDIF
MatchingKind(opener, closer) ==
    \/ opener.control_type = "TableStart" /\ closer.control_type = "TableEnd"
    \/ opener.control_type = "IF" /\ closer.control_type = "ENDIF"

\* C15: a block is popped only by a closing tag of the kind matching its
\* opener (TableStart by TableEnd, IF by ENDIF): a closer of the other kind
\* leaves the block open.
C15_PoppedByMatchingKindOnly ==
    [][ (/\ Consumes
         /\ IsCloser(NewElement)
         /\ OpenerIndices(template_elements) # <<>>
         /\ ~MatchingKind(
                template_elements[Last(OpenerIndices(template_elements))],
                NewElement))
        => open_block_parameters_stack' = open_block_parameters_stack ]_vars

\* Valid nesting: every closing tag meets an open block whose opener has
\* the matching kind and, when the closer names a parameter, the same
\* parameter; no block is left open at the end.
ValidlyNested(elems) ==
    /\ \A k \in 1..Len(elems) :
           IsCloser(elems[k]) =>
               LET open == OpenerIndices(SubSeq(elems, 1, k - 1))
               IN  /\ open # <<>>
                   /\ MatchingKind(elems[Last(open)], elems[k])
                   /\ HasParameter(elems[k]) =>
                          elems[k].parameter = elems[Last(open)].parameter
    /\ OpenerIndices(elems) = <<>>

IsControlOpenEntry(r) == r.conversion_method \in ControlOpenMethods
IsStructuralError(v) ==
    v.issue_type \in {"Unclosed Block", "Unexpected Block End",
                      "Mismatched Block End"}

\* C16: when the N parameterized opening tags and the M closing tags of the
\* list are validly nested (so N = M), the report holds exactly N
\* control-open and M control-close entries, the stack is empty at the end
\* of the pass, and there is no Unclosed Block, Unexpected Block End or
\* Mismatched Block End entry.
C16_BalancedBlocks ==
    (pc = "returned" /\ ValidlyNested(template_elements)) =>
        /\ CountIf(mapping_report, IsControlOpenEntry)
               = CountIf(template_elements, IsPushingOpener)
        /\ CountIf(mapping_report, IsControlCloseEntry)
               = CountIf(template_elements, IsCloser)
        /\ CountIf(template_elements, IsPushingOpener)
               = CountIf(template_elements, IsCloser)
        /\ open_block_parameters_stack = <<>>
        /\ CountIf(validation_errors, IsStructuralError) = 0

W16_BalancedBlocks ==
    /\ pc = "returned"
    /\ ValidlyNested(template_elements)
    /\ Len(template_elements) = 4
    /\ IsPushingOpener(template_elements[1])
    /\ IsPushingOpener(template_elements[2])
    /\ template_elements[1].parameter # template_elements[2].parameter
    /\ CountIf(mapping_report, IsControlOpenEntry) = 2
    /\ CountIf(mapping_report, IsControlCloseEntry) = 2

\* In the finished pass, closer j closed the block opened by opener k: k
\* was the open block on top when j was met, and the token emitted for j is
\* the closing delimiter of k's parameter.
ClosedBy(k, j) ==
    /\ IsCloser(template_elements[j])
    /\ LET open == OpenerIndices(SubSeq(template_elements, 1, j - 1))
       IN  open # <<>> /\ Last(open) = k
    /\ processed_tags_for_template_content[j] =
           <<"{", "{", "/">> \o template_elements[k].parameter[1] \o <<"}", "}">>

\* the 'Unclosed Block' error naming parameter p
UnclosedErrorFor(p) ==
    ValidationError(
        Some(<<"(", "U", "n", "c", "l", "o", "s", "e", "d", " ",
               "B", "l", "o", "c", "k", ":", " ">> \o p \o <<")">>),
        "Unclosed Block", "error")

\* C17 (as claimed): the converted document never contains a dangling
\* opener: every emitted opening delimiter '{{#p}}' is followed later in the
\* output by an emitted closing delimiter '{{/p}}' that closes it.
C17_NoDanglingOpener ==
    pc = "returned" =>
        \A k \in 1..Len(template_elements) :
            IsPushingOpener(template_elements[k]) =>
                \E j \in (k + 1)..Len(template_elements) : ClosedBy(k, j)

\* C17 (amended): every emitted opening delimiter '{{#p}}' is either
\* followed later in the output by an emitted closing delimiter '{{/p}}'
\* that closes it, or left dangling in the converted document and then
\* reported: the 'Unclosed Block' errors naming p are as many as the
\* openers of p left open.
C17_OpenerClosedOrReported ==
    pc = "returned" =>
        LET left == OpenerIndices(template_elements)
            leftOpen == {left[i] : i \in 1..Len(left)}
        IN  /\ \A k \in 1..Len(template_elements) :
                   IsPushingOpener(template_elements[k]) =>
                       /\ processed_tags_for_template_content[k] =
                              <<"{", "{", "#">>
                                  \o template_elements[k].parameter[1]
                                  \o <<"}", "}">>
                       /\ (k \notin leftOpen) <=>
                              (\E j \in (k + 1)..Len(template_elements) :
                                   ClosedBy(k, j))
            /\ \A p \in {ParamA, ParamB} :
                   Cardinality({n \in 1..Len(validation_errors) :
                                    validation_errors[n] = UnclosedErrorFor(p)})
                   = Cardinality({k \in leftOpen :
                                      template_elements[k].parameter[1] = p})

W17_OpenerClosedOrReported ==
    /\ pc = "returned"
    /\ Len(template_elements) = 3
    /\ IsPushingOpener(template_elements[1])
    /\ IsPushingOpener(template_elements[2])
    /\ ClosedBy(2, 3)
    /\ OpenerIndices(template_elements) = <<1>>
    /\ Last(validation_errors) =
           UnclosedErrorFor(template_elements[1].parameter[1])
    /\ converted_template[1] = "{" /\ converted_template[3] = "#"

\* C18: on an empty (or absent) element list convert_template returns the
\* empty string, an empty mapping report and exactly one validation entry,
\* 'No Template Content' of severity warning, with no token emitted and no
\* stack operation.
C18_EmptyInput ==
    (pc = "returned" /\ template_elements = <<>>) =>
        /\ converted_template = <<>>
        /\ mapping_report = <<>>
        /\ validation_errors =
               <<ValidationError(None, "No Template Content", "warning")>>
        /\ processed_tags_for_template_content = <<>>
        /\ open_block_parameters_stack = <<>>

W18_EmptyInput ==
    /\ pc = "returned"
    /\ template_elements = <<>>
    /\ Len(validation_errors) = 1
    /\ schema_mapping # None
    /\ query_context_csv # None

\* C19: for every finite list of well-formed elements and any mapping
\* sources convert_template terminates and returns: until it has returned
\* there is always a step to take, whatever has been recorded so far; once
\* the loop is entered the return is possible whatever is left on the stack
\* (no per-element issue aborts the pass); and every step either returns or
\* processes exactly the next element, so the elements after an offending
\* tag are processed too and the pass ends when the list does.
C19_TerminatesAndReturns ==
    /\ [](/\ pc = "returned" \/ ENABLED Next
          /\ pc = "loop" => ENABLED Return
          /\ Len(processed_tags_for_template_content) = Len(template_elements))
    /\ [][ \/ pc' = "returned"
           \/ /\ pc' = "loop"
              /\ Len(template_elements') = Len(template_elements) + 1 ]_vars

W19_TerminatesAndReturns ==
    /\ pc = "returned"
    /\ Len(template_elements) = 4
    /\ IsCloser(template_elements[1])
    /\ IsOpener(template_elements[2]) /\ ~HasParameter(template_elements[2])
    /\ IsPushingOpener(template_elements[3])
    /\ IsMergeField(template_elements[4])
    /\ Len(processed_tags_for_template_content) = 4
    /\ Len(mapping_report) = 4
    /\ Len(validation_errors) >= 3

-----------------------------------------------------------------------------
\* the text holds no tag: the pattern matches nowhere
NoTags(s) == \A start \in 1..Len(s) : CONGA_TAG_REGEX(s, start) = 0

\* C20: for any text that contains no tags, tokenizing it with
\* _extract_elements_from_text and converting the elements with
\* convert_template returns the text itself, character for character, also
\* when the text is empty or holds only whitespace.
C20_PlainTextRoundTrip ==
    (pc = "returned" /\ NoTags(text)) => converted_template = text

\* what an element stands for in the text it was extracted from
Piece(e) == IF IsText(e) THEN e.content ELSE e.original_tag

Pieces(elems) == [k \in 1..Len(elems) |-> Piece(elems[k])]

\* C21: the elements _extract_elements_from_text produces cover the text
\* with no gaps or overlaps: the contents of the text elements and the
\* original tags of the other elements, concatenated in order, are the text,
\* whitespace-only runs between tags included.
C21_TagCoverage ==
    pc = "returned" => Concat(Pieces(template_elements)) = text

\* t is s without its leading and trailing blanks
Trimmed(t, s) ==
    /\ t = <<>> \/ (Head(t) # " " /\ Last(t) # " ")
    /\ \E a \in 0..Len(s) :
           /\ a + Len(t) <= Len(s)
           /\ SubSeq(s, a + 1, a + Len(t)) = t
           /\ \A j \in (1..a) \cup ((a + Len(t) + 1)..Len(s)) : s[j] = " "

\* what stands between the delimiters of a tag
InnerOf(e) == SubSeq(e.original_tag, 3, Len(e.original_tag) - 2)

HasColon(s) == \E j \in 1..Len(s) : s[j] = ":"

\* the parameter of a control tag whose right part is right: absent when the
\* trimmed right part is empty
ParameterNullWhenEmpty(parameter, right) ==
    IF \A j \in 1..Len(right) : right[j] = " "
    THEN parameter = None
    ELSE parameter # None /\ Trimmed(parameter[1], right)

\* the parameter of a control tag whose right part is right: always a
\* string, the empty one when the trimmed right part is empty
ParameterAlwaysString(parameter, right) ==
    parameter # None /\ Trimmed(parameter[1], right)

\* the classification rule, for either reading of the parameter
ParsedByRule(e, ParameterRule(_, _)) ==
    LET inner == InnerOf(e)
    IN  IF HasColon(inner)
        THEN /\ IsControl(e)
             /\ \E c \in 1..Len(inner) :
                    /\ inner[c] = ":"
                    /\ \A j \in 1..(c - 1) : inner[j] # ":"
                    /\ Trimmed(e.control_type, SubSeq(inner, 1, c - 1))
                    /\ ParameterRule(e.parameter,
                                     SubSeq(inner, c + 1, Len(inner)))
        ELSE /\ IsMergeField(e)
             /\ Trimmed(e.field_name, inner)

\* C22 as stated: _parse_tag_content makes a tag whose trimmed content
\* holds a colon a control tag split on the first colon, with the trimmed
\* left part as control type and the trimmed right part as parameter, an
\* empty right part giving an absent (None) parameter; any other tag is a
\* merge field named by the whole trimmed content.
C22_EmptyParameterIsNone ==
    \A k \in 1..Len(template_elements) :
        IsNonText(template_elements[k]) =>
            ParsedByRule(template_elements[k], ParameterNullWhenEmpty)

\* C22 amended: the same classification, but the parameter of a control tag
\* is always a string: an empty right part gives the empty string, never
\* None.
C22_EmptyParameterIsEmptyString ==
    \A k \in 1..Len(template_elements) :
        IsNonText(template_elements[k]) =>
            ParsedByRule(template_elements[k], ParameterAlwaysString)

W22_EmptyParameterIsEmptyString ==
    /\ pc = "returned"
    /\ text = <<"{", "{", " ", ":", "}", "}">>
    /\ Len(template_elements) = 1
    /\ IsControl(template_elements[1])
    /\ template_elements[1].control_type = <<>>
    /\ template_elements[1].parameter = Some(<<>>)

OpensAt(s, i) == i + 1 <= Len(s) /\ s[i] = "{" /\ s[i + 1] = "{"

ClosesAt(s, j) == j + 1 <= Len(s) /\ s[j] = "}" /\ s[j + 1] = "}"

\* the "{{" at i has no "}}" of its own: none follows, or another "{{" is
\* opened after it before the first "}}"
Unterminated(s, i) ==
    /\ OpensAt(s, i)
    /\ ~ \E c \in (i + 2)..Len(s) :
           /\ ClosesAt(s, c)
           /\ \A j \in (i + 2)..(c - 1) : ~OpensAt(s, j)

\* the last element is a text element holding the text from index i (or
\* from before it) to the end
LiteralFrom(elems, s, i) ==
    /\ elems # <<>>
    /\ IsText(Last(elems))
    /\ Len(Last(elems).content) >= Len(s) - i + 1
    /\ Last(elems).content =
           SubSeq(s, Len(s) - Len(Last(elems).content) + 1, Len(s))

\* C23: when the text holds an unterminated "{{", the tokenizer returns
\* everything from that "{{" to the end of the text as literal text: no
\* merge field and no control tag is produced from or after it.
C23_UnterminatedIsLiteral ==
    pc = "returned" =>
        \A i \in 1..Len(text) :
            Unterminated(text, i) => LiteralFrom(template_elements, text, i)

\* the targets the mapping sources hold for a key
CandidateTargets(key) ==
    (IF KeyInDirect(key)
     THEN {schema_mapping[1].direct_mappings[key]} ELSE {})
    \cup (IF query_context_csv = None THEN {}
          ELSE { query_context_csv[1][j].RelatedBoxField[1] :
                   j \in { i \in 1..Len(query_context_csv[1]) :
                             ContextRowResolves(i, key) } })

\* token is a token the engine produces for element k of elems
TokenOf(elems, k, token) ==
    LET e == elems[k]
    IN  IF IsText(e) THEN token = e.content
        ELSE IF IsMergeField(e)
        THEN \/ token = e.original_tag
             \/ \E target \in CandidateTargets(e.original_tag) :
                    \/ token = target
                    \/ token = <<"{", "{">> \o target \o <<"}", "}">>
        ELSE IF IsPushingOpener(e)
        THEN token = <<"{", "{", "#">> \o e.parameter[1] \o <<"}", "}">>
        ELSE IF IsCloser(e)
        THEN \/ token = e.original_tag
             \/ \E j \in 1..(k - 1) :
                    /\ IsPushingOpener(elems[j])
                    /\ token = <<"{", "{", "/">> \o elems[j].parameter[1]
                                   \o <<"}", "}">>
        ELSE token = e.original_tag

\* C24: convert_template consumes the elements in a single forward pass:
\* each step takes the next element only and appends one token, leaving the
\* elements and tokens before it as they were; after any prefix there is one
\* token per element and the k-th token is one produced for the k-th
\* element; nothing is processed after the return.
C24_SingleForwardPass ==
    /\ [](/\ Len(processed_tags_for_template_content) = Len(template_elements)
          /\ \A k \in 1..Len(template_elements) :
                 TokenOf(template_elements, k,
                         processed_tags_for_template_content[k]))
    /\ [][ /\ pc # "returned"
           /\ Len(template_elements') <= Len(template_elements) + 1
           /\ SubSeq(template_elements', 1, Len(template_elements))
                  = template_elements
           /\ SubSeq(processed_tags_for_template_content', 1,
                     Len(processed_tags_for_template_content))
                  = processed_tags_for_template_content
           /\ pc' = "returned" =>
                  /\ template_elements' = template_elements
                  /\ processed_tags_for_template_content'
                         = processed_tags_for_template_content ]_vars

W24_SingleForwardPass ==
    /\ pc = "returned"
    /\ Len(template_elements) = 4
    /\ IsPushingOpener(template_elements[1])
    /\ IsText(template_elements[2])
    /\ IsMergeField(template_elements[3])
    /\ IsCloser(template_elements[4])
    /\ processed_tags_for_template_content[2] = template_elements[2].content
    /\ processed_tags_for_template_content[3] = <<"{", "{", "a", "}", "}">>
    /\ processed_tags_for_template_content[4] = <<"{", "{", "/", "A", "}", "}">>

\* what an invocation has produced so far
Produced(frame) ==
    <<frame.processed_tags_for_template_content, frame.mapping_report,
      frame.validation_errors, frame.open_block_parameters_stack,
      frame.converted_template>>

\* C25: convert_template holds no state across invocations: the open-block
\* stack, the output buffer, the report and the error list are empty when
\* an invocation starts, whatever another invocation did before or does
\* meanwhile; two invocations on the same elements and mapping sources that
\* have come equally far hold the same stack, buffer, report and
\* validation list, and return the same converted output.
C25_NoStateAcrossInvocations ==
    /\ pc = "entry" =>
           /\ open_block_parameters_stack = <<>>
           /\ processed_tags_for_template_content = <<>>
           /\ mapping_report = <<>>
           /\ validation_errors = <<>>
    /\ (/\ suspended # None
        /\ suspended[1].pc = pc
        /\ suspended[1].template_elements = template_elements)
       => Produced(suspended[1]) = Produced(Frame(Running))

\* the first call left a block open and has returned; the second one,
\* entered afterwards, reports it once, as the first did
W25_NoStateAcrossInvocations ==
    /\ suspended # None
    /\ Running = "second"
    /\ pc = "returned"
    /\ suspended[1].pc = "returned"
    /\ Len(template_elements) = 2
    /\ IsPushingOpener(template_elements[1])
    /\ IsMergeField(template_elements[2])
    /\ Len(SelectSeq(validation_errors, IsUnclosedError)) = 1
    /\ Len(SelectSeq(suspended[1].validation_errors, IsUnclosedError)) = 1

\* C26: merge-field resolution keys both sources on the element's full
\* original tag, delimiters included: an entry resolved by the direct
\* mappings is the table's value for the original tag, an entry resolved by
\* the context rows is the target of a row whose CongaField is the original
\* tag, and a field whose original tag is a key of neither source is
\* Unmapped, also when its bare field name is a key.
C26_KeyedOnOriginalTag ==
    (Consumed /\ IsMergeField(LastElement))
    => LET key == LastElement.original_tag
           entry == Last(mapping_report)
       IN  /\ entry.conversion_method = "Direct Mapping (Schema)" =>
                  /\ KeyInDirect(key)
                  /\ entry.box_tag = Some(schema_mapping[1].direct_mappings[key])
           /\ entry.conversion_method = "Query Context (CSV)" =>
                  /\ KeyInContext(key)
                  /\ \E j \in 1..Len(query_context_csv[1]) :
                         /\ ContextRowResolves(j, key)
                         /\ entry.box_tag =
                                query_context_csv[1][j].RelatedBoxField
           /\ (~KeyInDirect(key) /\ ~KeyInContext(key)) =>
                  /\ entry.conversion_method = "Unmapped"
                  /\ entry.box_tag = None
                  /\ Last(processed_tags_for_template_content) = key

W26_KeyedOnOriginalTag ==
    /\ Consumed
    /\ IsMergeField(LastElement)
    /\ KeyInDirect(LastElement.field_name)
    /\ query_context_csv # None
    /\ \E j \in 1..Len(query_context_csv[1]) :
           ContextRowResolves(j, LastElement.field_name)
    /\ Last(mapping_report).conversion_method = "Unmapped"
    /\ Last(processed_tags_for_template_content) = LastElement.original_tag

\* token k is an opening (mark "#") or closing (mark "/") delimiter the
\* engine emitted for a control tag
IsEmitted(mark, k) ==
    LET token == processed_tags_for_template_content[k]
    IN  /\ IsControl(template_elements[k])
        /\ token # template_elements[k].original_tag
        /\ Len(token) >= 5
        /\ SubSeq(token, 1, 3) = <<"{", "{", mark>>
        /\ SubSeq(token, Len(token) - 1, Len(token)) = <<"}", "}">>

\* the parameter an emitted delimiter names
NamedBy(k) ==
    SubSeq(processed_tags_for_template_content[k], 4,
           Len(processed_tags_for_template_content[k]) - 2)

\* the parameters of the opening delimiters among the first k tokens that no
\* closing delimiter among them has closed, oldest first
RECURSIVE StillOpen(_)
StillOpen(k) ==
    IF k = 0 THEN <<>>
    ELSE LET before == StillOpen(k - 1)
         IN  IF IsEmitted("#", k) THEN Append(before, NamedBy(k))
             ELSE IF IsEmitted("/", k) /\ before # <<>>
             THEN SubSeq(before, 1, Len(before) - 1)
             ELSE before

\* C27: after any prefix of the elements the open-block stack is, bottom to
\* top, the parameters of the opening delimiters emitted so far and not yet
\* closed by an emitted closing delimiter; in every prefix of the output
\* the emitted closers are no more than the emitted openers, and each
\* emitted closer '{{/q}}' names the most recent opener still open.
C27_StackMirrorsOutput ==
    LET n == Len(processed_tags_for_template_content)
    IN  /\ open_block_parameters_stack = StillOpen(n)
        /\ \A k \in 1..n :
               /\ Cardinality({j \in 1..k : IsEmitted("/", j)})
                      <= Cardinality({j \in 1..k : IsEmitted("#", j)})
               /\ IsEmitted("/", k) =>
                      /\ StillOpen(k - 1) # <<>>
                      /\ Last(StillOpen(k - 1)) = NamedBy(k)

W27_StackMirrorsOutput ==
    /\ Len(template_elements) = 4
    /\ IsEmitted("#", 1) /\ NamedBy(1) = <<"A">>
    /\ IsEmitted("#", 2) /\ NamedBy(2) = <<"B">>
    /\ IsEmitted("/", 3) /\ NamedBy(3) = <<"B">>
    /\ IsCloser(template_elements[3])
    /\ template_elements[3].parameter = Some(<<"A">>)
    /\ IsEmitted("#", 4) /\ NamedBy(4) = <<"B">>
    /\ open_block_parameters_stack = <<<<"A">>, <<"B">>>>

\* the step just taken recorded an 'Unmapped Merge Field' warning for the
\* element it consumed, and no other validation entry
WarnsUnmapped ==
    validation_errors' =
        Append(validation_errors,
               ValidationError(Some(NewElement.original_tag),
                               "Unmapped Merge Field", "warning"))

C29_ReportTargetIsToken ==
    (Consumed /\ IsNonText(LastElement))
    => LET entry == Last(mapping_report)
           token == Last(processed_tags_for_template_content)
       IN  /\ entry.box_tag = None <=> token = LastElement.original_tag
           /\ entry.box_tag # None => entry.box_tag = Some(token)

\* C29 amended: for a control tag or an unknown element the target of the
\* report entry is the token emitted when the element was converted and
\* null exactly when the original tag was emitted.  For a merge field the
\* target is the value found in the mapping source, not the token: the
\* token is that value when it already has its delimiters and the value
\* wrapped in '{{' '}}' otherwise, and the original tag when the value is
\* null or the empty string.
C29_ReportTargetOfControlIsToken ==
    (Consumed /\ IsNonText(LastElement))
    => LET entry == Last(mapping_report)
           token == Last(processed_tags_for_template_content)
       IN  IF IsMergeField(LastElement)
           THEN IF entry.box_tag = None \/ entry.box_tag = Some(<<>>)
                THEN token = LastElement.original_tag
                ELSE LET target == entry.box_tag[1]
                     IN  /\ target \in CandidateTargets(LastElement.original_tag)
                         /\ HasDelimiters(target) => token = target
                         /\ ~HasDelimiters(target) =>
                                /\ token = <<"{", "{">> \o target \o <<"}", "}">>
                                /\ entry.box_tag # Some(token)
           ELSE /\ entry.box_tag = None <=> token = LastElement.original_tag
                /\ entry.box_tag # None => entry.box_tag = Some(token)

W29_ReportTargetOfControlIsToken ==
    /\ Len(template_elements) = 2
    /\ IsPushingOpener(template_elements[1])
    /\ mapping_report[1].box_tag = Some(processed_tags_for_template_content[1])
    /\ IsMergeField(template_elements[2])
    /\ mapping_report[2].box_tag = Some(<<"a">>)
    /\ processed_tags_for_template_content[2] = <<"{", "{", "a", "}", "}">>

\* (parameterized openers) minus (closers met while a block was open)
\* among the first k elements
RECURSIVE Depth(_, _)
Depth(elems, k) ==
    IF k = 0 THEN 0
    ELSE LET before == Depth(elems, k - 1)
         IN  IF IsPushingOpener(elems[k]) THEN before + 1
             ELSE IF IsCloser(elems[k]) /\ before > 0 THEN before - 1
             ELSE before

IsMissingParameterError(v) == v.issue_type = "Missing Parameter"

\* the list is [Open(p), Open without parameter, Close, Close]
MalformedOpenerScenario(elems) ==
    /\ Len(elems) = 4
    /\ IsPushingOpener(elems[1])
    /\ IsOpener(elems[2]) /\ ~HasParameter(elems[2])
    /\ IsCloser(elems[3])
    /\ IsCloser(elems[4])

\* C30: a parameterless opener pushes nothing, so its closing tag acts on
\* whatever is on the stack: in [Open(A), Open without parameter, Close,
\* Close] the first Close pops and closes A and the second one is reported
\* as 'Unexpected Block End'; after any prefix the stack depth is
\* (parameterized openers seen) minus (closers seen while the stack was
\* non-empty), and a step changes the depth by at most one.
C30_MalformedOpenerShiftsPairing ==
    /\ [](/\ Len(open_block_parameters_stack)
                 = Depth(template_elements, Len(template_elements))
          /\ MalformedOpenerScenario(template_elements) =>
                 /\ processed_tags_for_template_content[2]
                        = template_elements[2].original_tag
                 /\ processed_tags_for_template_content[3]
                        = <<"{", "{", "/">> \o template_elements[1].parameter[1]
                              \o <<"}", "}">>
                 /\ mapping_report[3].conversion_method \in ControlCloseMethods
                 /\ processed_tags_for_template_content[4]
                        = template_elements[4].original_tag
                 /\ mapping_report[4].box_tag = None
                 /\ open_block_parameters_stack = <<>>
                 /\ SelectSeq(validation_errors, IsMissingParameterError)
                        = <<ValidationError(Some(template_elements[2].original_tag),
                                            "Missing Parameter", "error")>>
                 /\ SelectSeq(validation_errors, IsUnexpectedEndError)
                        = <<ValidationError(Some(template_elements[4].original_tag),
                                            "Unexpected Block End", "error")>>
                 /\ SelectSeq(validation_errors, IsUnclosedError) = <<>>)
    /\ [][ (Consumes /\ IsOpener(NewElement) /\ ~HasParameter(NewElement))
           => open_block_parameters_stack' = open_block_parameters_stack ]_vars

W30_MalformedOpenerShiftsPairing ==
    /\ pc = "returned"
    /\ MalformedOpenerScenario(template_elements)
    /\ template_elements[1].parameter = Some(<<"A">>)
    /\ template_elements[3].control_type = "ENDIF"
    /\ processed_tags_for_template_content[3] = <<"{", "{", "/", "A", "}", "}">>
    /\ Last(validation_errors).issue_type = "Unexpected Block End"

=============================================================================
